---- MODULE Spec2Model ----
(***************************************************************************)
(* wdtCmdLine.cpp: the command line front end of WDT.  main() picks one of *)
(* four modes from the flags, optionally reads the list of files from      *)
(* stdin, arms the abort watchdog (setUpAbort), runs the transfer, cancels *)
(* the watchdog (cancelAbort) and returns the transfer's error code.       *)
(*                                                                         *)
(* Two threads are modelled: the foreground thread (main, position pc) and *)
(* the watchdog thread started by std::async (position abortThread).  They *)
(* share abortMutex, abortCondVar and the atomic abortTrigger.             *)
(***************************************************************************)
EXTENDS Integers, Sequences, FiniteSets, TLC

\* ------------------------------------------------------------------ bounds
MaxAbortSeconds == 2
MaxErrorCode == 2
MaxPorts == 2
MaxLines == 2
MaxCalls == 3

\* --------------------------------------------------------- program values
\* ErrorCode (wdt/ErrorCodes.h): OK is the success status 0, ERROR the generic one.
OK == 0
ERROR == 1
ErrorCodes == 0 .. MaxErrorCode

TAB == "\t"
Digits == <<"0", "1", "2", "3", "4", "5", "6", "7", "8", "9">>
\* The lines stdin may hold: well formed ones (a name; a name and a size; the
\* two with two tabs between them), an empty line, a line that is one tab, a
\* line of three fields, and a size that is no number.
StdinLines ==
  { <<"a">>,
    <<"b", TAB, "1", "7">>,
    <<"a", TAB, TAB, "7">>,
    <<>>,
    <<TAB>>,
    <<"a", TAB, "7", TAB, "b">>,
    <<"a", TAB, "b">> }

RECURSIVE SeqsUpTo(_, _)
SeqsUpTo(S, n) ==
  IF n = 0 THEN {<<>>}
  ELSE LET shorter == SeqsUpTo(S, n - 1)
       IN  shorter \cup {Append(s, x) : s \in {t \in shorter : Len(t) = n - 1}, x \in S}

StdinStreams == SeqsUpTo(StdinLines, MaxLines)

VARIABLES
  \* the command line flags (gflags), fixed for the run
  FLAGS_parse_transfer_log, FLAGS_destination, FLAGS_run_as_daemon,
  FLAGS_files, FLAGS_abort_after_seconds,
  \* the foreground thread
  pc,           \* position of the foreground thread
  ra,           \* where setUpAbort / cancelAbort return to
  retCode,      \* main's local ErrorCode retCode
  numSuccess,   \* main's local numSuccess: <<n>> (<<>> before registerPorts)
  reportCode,   \* the error code of the TransferReport: <<c>> (<<>>: no report)
  exitStatus,   \* the value main returned: <<v>> (<<>> while running)
  parsed,       \* what parseAndPrint() returned: <<b>> (<<>>: not called)
  cin,          \* the lines of std::cin
  cinPos,       \* how many of them std::getline has consumed
  fileInfo,     \* main's local std::vector<FileInfo>
  senderFiles,  \* the fileInfo the Sender was built with: <<f>> (<<>>: no Sender)
  \* the sender or receiver
  abortChecker, \* the IAbortChecker installed on it: "null" or "chkr"
  transfer,     \* the transfer-running call: "none", "running", "returned"
  polled,       \* what the role's last shouldAbort() returned: <<b>> (<<>>: none)
  \* the watchdog
  abortTrigger, \* static std::atomic<bool> abortTrigger
  abortThread,  \* position of the watchdog thread ("none": never started)
  abortMutex,   \* owner of abortMutex: "none", "main", "watchdog"
  remaining,    \* seconds left until wait_for's deadline
  unblockedBy,  \* what ended the wait: "none", "notify", "timeout", "spurious"
  cvStatus,     \* what wait_for returned: "none", "no_timeout", "timeout"
  \* history of the run
  elapsed,      \* seconds since the watchdog was launched, capped at the timeout
  calls,        \* the calls made on the external collaborators
  wdLog,        \* the lines the watchdog thread has logged
  stores,       \* how many times abortTrigger.store(true) ran
  armCalls,     \* how many calls of setUpAbort have returned
  cancelCalls,  \* how many calls of cancelAbort have returned
  notifies,     \* how many times notify_one ran
  cancelledInTime  \* a notify_one ran while the timeout had not elapsed

flagVars == <<FLAGS_parse_transfer_log, FLAGS_destination, FLAGS_run_as_daemon,
              FLAGS_files, FLAGS_abort_after_seconds>>
mainVars == <<retCode, numSuccess, reportCode, exitStatus, parsed>>
readerVars == <<cin, cinPos, fileInfo, senderFiles>>
roleVars == <<abortChecker, transfer, polled>>
waitVars == <<remaining, unblockedBy, cvStatus>>
wdVars == <<abortTrigger, abortThread, wdLog, stores>>
histVars == <<armCalls, cancelCalls, notifies, cancelledInTime>>
vars == <<flagVars, pc, ra, mainVars, readerVars, roleVars, waitVars, wdVars,
          abortMutex, elapsed, calls, histVars>>

AbortSecondsValues == -1 .. MaxAbortSeconds

\* The state at the top of main, after ParseCommandLineFlags: any flag values.
InitFlags ==
  /\ FLAGS_parse_transfer_log \in BOOLEAN
  /\ FLAGS_destination \in {"", "host"}
  /\ FLAGS_run_as_daemon \in BOOLEAN
  /\ FLAGS_files \in BOOLEAN
  /\ FLAGS_abort_after_seconds \in AbortSecondsValues

InitState ==
  /\ ra = "none"
  /\ retCode = OK
  /\ numSuccess = <<>>
  /\ reportCode = <<>>
  /\ exitStatus = <<>>
  /\ parsed = <<>>
  /\ cinPos = 0
  /\ fileInfo = <<>>
  /\ senderFiles = <<>>
  /\ abortChecker = "null"
  /\ transfer = "none"
  /\ polled = <<>>
  /\ abortTrigger = FALSE
  /\ abortThread = "none"
  /\ abortMutex = "none"
  /\ remaining = 0
  /\ unblockedBy = "none"
  /\ cvStatus = "none"
  /\ elapsed = 0
  /\ calls = {}
  /\ wdLog = <<>>
  /\ stores = 0
  /\ armCalls = 0
  /\ cancelCalls = 0
  /\ notifies = 0
  /\ cancelledInTime = FALSE

\* std::cin holds lines only in the runs that read it (Send with -files).
ReadsStdin == ~FLAGS_parse_transfer_log /\ FLAGS_destination # "" /\ FLAGS_files

Init ==
  /\ InitFlags
  /\ InitState
  /\ cin \in (IF ReadsStdin THEN StdinStreams ELSE {<<>>})
  /\ pc = "start"

\* ------------------------------------------------------ item-list reader
\* folly::split('\t', line, fields, true): the pieces between tabs, the empty
\* ones dropped.
RECURSIVE SplitFrom(_, _, _, _)
SplitFrom(line, i, cur, out) ==
  IF i > Len(line)
  THEN IF cur = <<>> THEN out ELSE Append(out, cur)
  ELSE IF line[i] = TAB
       THEN SplitFrom(line, i + 1, <<>>, IF cur = <<>> THEN out ELSE Append(out, cur))
       ELSE SplitFrom(line, i + 1, Append(cur, line[i]), out)

Split(line) == SplitFrom(line, 1, <<>>, <<>>)

DigitValue(c) == (CHOOSE k \in 1 .. Len(Digits) : Digits[k] = c) - 1
IsDigit(c) == \E k \in 1 .. Len(Digits) : Digits[k] = c

\* folly::to<int64_t>(field) throws unless the field is a number.
IsNumber(field) == field # <<>> /\ \A k \in 1 .. Len(field) : IsDigit(field[k])

RECURSIVE ToInt64From(_, _, _)
ToInt64From(field, i, acc) ==
  IF i > Len(field) THEN acc
  ELSE ToInt64From(field, i + 1, acc * 10 + DigitValue(field[i]))

ToInt64(field) == ToInt64From(field, 1, 0)

\* Faulty variant: a line with too many fields is let through.
MalformedOnlyWhenEmpty(fields) == fields = <<>>

\* fields.empty() || fields.size() > 2
Malformed(fields) == fields = <<>> \/ Len(fields) > 2

\* Faulty variant: a missing size becomes 0.
FileSizeDefaultZero(fields) == IF Len(fields) > 1 THEN ToInt64(fields[2]) ELSE 0

\* fields.size() > 1 ? folly::to<int64_t>(fields[1]) : -1
FileSize(fields) == IF Len(fields) > 1 THEN ToInt64(fields[2]) ELSE -1

\* fileInfo.emplace_back(fields[0], filesize)
MakeFileInfo(fields) == <<fields[1], FileSize(fields)>>

\* ------------------------------------------------------------ main
\* Faulty variant: the destination is looked at before parse_transfer_log
DispatchDestinationFirst(parseLog, destination) ==
  IF destination # "" THEN "readFiles"
  ELSE IF parseLog THEN "parseAndPrint"
  ELSE "registerPorts"

\* if (FLAGS_parse_transfer_log) .. else if (FLAGS_destination.empty()) .. else ..
DispatchBranch(parseLog, destination) ==
  IF parseLog THEN "parseAndPrint"
  ELSE IF destination = "" THEN "registerPorts"
  ELSE "readFiles"

\* ErrorCode retCode = OK, then the branch on the flags.
Dispatch ==
  /\ pc = "start"
  /\ retCode' = OK
  /\ pc' = DispatchBranch(FLAGS_parse_transfer_log, FLAGS_destination)
  /\ UNCHANGED <<flagVars, ra, numSuccess, reportCode, exitStatus, parsed,
                 readerVars, roleVars, waitVars, wdVars, abortMutex, elapsed,
                 calls, histVars>>

\* Faulty variant: the result of parseAndPrint() is dropped.
ParseResultIgnored(ok, code) == code

\* LogRepair: retCode = ERROR when parseAndPrint() fails; then cancelAbort().
ParseResult(ok, code) == IF ok THEN code ELSE ERROR

ParseAndPrint ==
  /\ pc = "parseAndPrint"
  /\ \E ok \in BOOLEAN :
       /\ parsed' = <<ok>>
       /\ retCode' = ParseResult(ok, retCode)
  /\ calls' = calls \cup {"parseAndPrint"}
  /\ pc' = "cancelAbort"
  /\ ra' = "return"
  /\ UNCHANGED <<flagVars, numSuccess, reportCode, exitStatus, readerVars,
                 roleVars, waitVars, wdVars, abortMutex, elapsed, histVars>>

\* Faulty variant: the early return is taken only for a negative count.
NoPortBoundBelowZero(n) == n < 0

\* if (numSuccess == 0)
NoPortBound(n) == n = 0

\* Receiver receiver(..); numSuccess = receiver.registerPorts(); with no port
\* bound main returns 0 at once, else it calls setUpAbort(receiver).
RegisterPorts ==
  /\ pc = "registerPorts"
  /\ calls' = calls \cup {"Receiver", "registerPorts"}
  /\ \E n \in 0 .. MaxPorts :
       /\ numSuccess' = <<n>>
       /\ IF NoPortBound(n)
          THEN /\ exitStatus' = <<0>>
               /\ pc' = "static_dtors"
               /\ ra' = ra
          ELSE /\ exitStatus' = exitStatus
               /\ pc' = "setUpAbort"
               /\ ra' = "receive"
  /\ UNCHANGED <<flagVars, retCode, reportCode, parsed, readerVars, roleVars,
                 waitVars, wdVars, abortMutex, elapsed, histVars>>

\* if (!FLAGS_run_as_daemon) receiver.transferAsync(): the transfer runs from here.
TransferAsync ==
  /\ pc = "receive"
  /\ ~FLAGS_run_as_daemon
  /\ calls' = calls \cup {"transferAsync"}
  /\ transfer' = "running"
  /\ pc' = "finish"
  /\ UNCHANGED <<flagVars, ra, mainVars, readerVars, abortChecker, polled,
                 waitVars, wdVars, abortMutex, elapsed, histVars>>

\* Faulty variant: the code reduced to OK / ERROR
RetCodeOkOrError(code) == IF code = OK THEN OK ELSE ERROR

\* retCode = report->getSummary().getErrorCode()
RetCodeOf(code) == code

\* Faulty variant: main returns straight after the transfer-running call.
AfterTransferSkipsCancel(code) == "return"

\* Faulty variant: an early return on an error code, past cancelAbort()
AfterTransferReturnsOnError(code) == IF code # OK THEN "return" ELSE "cancelAbort"

\* Where main goes when the transfer-running call has returned with `code`.
AfterTransfer(code) == "cancelAbort"

\* report = receiver.finish(); retCode = the report's code; then cancelAbort().
FinishReturn ==
  /\ pc = "finish"
  /\ \E c \in ErrorCodes :
       /\ reportCode' = <<c>>
       /\ retCode' = RetCodeOf(c)
       /\ pc' = AfterTransfer(c)
  /\ calls' = calls \cup {"finish"}
  /\ transfer' = "returned"
  /\ ra' = "return"
  /\ UNCHANGED <<flagVars, numSuccess, exitStatus, parsed, readerVars,
                 abortChecker, polled, waitVars, wdVars, abortMutex, elapsed,
                 histVars>>

\* else receiver.runForever(): the call begins.
RunForeverCall ==
  /\ pc = "receive"
  /\ FLAGS_run_as_daemon
  /\ calls' = calls \cup {"runForever"}
  /\ transfer' = "running"
  /\ pc' = "runForever"
  /\ UNCHANGED <<flagVars, ra, mainVars, readerVars, abortChecker, polled,
                 waitVars, wdVars, abortMutex, elapsed, histVars>>

\* runForever() returned; retCode = OK; then cancelAbort().
RunForeverReturn ==
  /\ pc = "runForever"
  /\ retCode' = OK
  /\ transfer' = "returned"
  /\ pc' = AfterTransfer(OK)
  /\ ra' = "return"
  /\ UNCHANGED <<flagVars, numSuccess, reportCode, exitStatus, parsed,
                 readerVars, abortChecker, polled, waitVars, wdVars, abortMutex,
                 elapsed, calls, histVars>>

\* Send without -files: fileInfo stays empty.
SkipFiles ==
  /\ pc = "readFiles"
  /\ ~FLAGS_files
  /\ pc' = "Sender"
  /\ UNCHANGED <<flagVars, ra, mainVars, readerVars, roleVars, waitVars, wdVars,
                 abortMutex, elapsed, calls, histVars>>

\* What one line does to the run: LOG(FATAL) on a malformed line, an uncaught
\* exception of folly::to on a size that is no number, else one more item.
LineOutcome(fields) ==
  IF Malformed(fields) THEN "fatal"
  ELSE IF Len(fields) > 1 /\ ~IsNumber(fields[2]) THEN "terminated"
  ELSE "readFiles"

\* One round of while (std::getline(std::cin, line)) { .. }.
GetLine ==
  /\ pc = "readFiles"
  /\ FLAGS_files
  /\ cinPos < Len(cin)
  /\ LET fields == Split(cin[cinPos + 1])
     IN  /\ pc' = LineOutcome(fields)
         /\ fileInfo' = IF LineOutcome(fields) = "readFiles"
                        THEN Append(fileInfo, MakeFileInfo(fields))
                        ELSE fileInfo
  /\ cinPos' = cinPos + 1
  /\ UNCHANGED <<flagVars, ra, mainVars, cin, senderFiles, roleVars, waitVars,
                 wdVars, abortMutex, elapsed, calls, histVars>>

\* std::getline fails at the end of the input: the loop ends.
GetLineEof ==
  /\ pc = "readFiles"
  /\ FLAGS_files
  /\ cinPos = Len(cin)
  /\ pc' = "Sender"
  /\ UNCHANGED <<flagVars, ra, mainVars, readerVars, roleVars, waitVars, wdVars,
                 abortMutex, elapsed, calls, histVars>>

\* Sender sender(FLAGS_destination, FLAGS_directory, ports, fileInfo);
\* then setUpAbort(sender).
SenderCtor ==
  /\ pc = "Sender"
  /\ senderFiles' = <<fileInfo>>
  /\ calls' = calls \cup {"Sender"}
  /\ pc' = "setUpAbort"
  /\ ra' = "transfer"
  /\ UNCHANGED <<flagVars, mainVars, cin, cinPos, fileInfo, roleVars, waitVars,
                 wdVars, abortMutex, elapsed, histVars>>

\* The setters, then sender.transfer(): the call begins.
TransferCall ==
  /\ pc = "transfer"
  /\ calls' = calls \cup {"transfer"}
  /\ transfer' = "running"
  /\ pc' = "in_transfer"
  /\ UNCHANGED <<flagVars, ra, mainVars, readerVars, abortChecker, polled,
                 waitVars, wdVars, abortMutex, elapsed, histVars>>

\* report = sender.transfer() returned; retCode = the report's code; cancelAbort().
TransferReturn ==
  /\ pc = "in_transfer"
  /\ \E c \in ErrorCodes :
       /\ reportCode' = <<c>>
       /\ retCode' = RetCodeOf(c)
       /\ pc' = AfterTransfer(c)
  /\ transfer' = "returned"
  /\ ra' = "return"
  /\ UNCHANGED <<flagVars, numSuccess, exitStatus, parsed, readerVars,
                 abortChecker, polled, waitVars, wdVars, abortMutex, elapsed,
                 calls, histVars>>

\* The value main returns.
ReturnValue(code) == code

\* return retCode;
MainReturn ==
  /\ pc = "return"
  /\ exitStatus' = <<ReturnValue(retCode)>>
  /\ pc' = "static_dtors"
  /\ UNCHANGED <<flagVars, ra, retCode, numSuccess, reportCode, parsed,
                 readerVars, roleVars, waitVars, wdVars, abortMutex, elapsed,
                 calls, histVars>>

\* Faulty variant: a detached thread: nothing waits for it at exit
FutureNeverWaits(thread) == TRUE

\* The destructor of the static std::future that std::async returned blocks
\* until the watchdog thread has ended; a future never initialised has none.
FutureReady(thread) == thread \in {"none", "done"}

\* After main returned: the static objects are destroyed and the process ends.
StaticDtors ==
  /\ pc = "static_dtors"
  /\ FutureReady(abortThread)
  /\ pc' = "exited"
  /\ UNCHANGED <<flagVars, ra, mainVars, readerVars, roleVars, waitVars, wdVars,
                 abortMutex, elapsed, calls, histVars>>

\* ------------------------------------------------------ AbortChecker
\* Faulty variant: the checker holds a copy of the flag taken when it was
\* constructed, not a pointer to it.
shouldAbortOfCopy == FALSE

\* AbortChecker::shouldAbort(): abortTriggerPtr_->load()
shouldAbort == abortTrigger

\* Faulty variant: exchange(false) in place of load(): reading clears the flag
AfterLoadClears(flag) == FALSE

\* What load() leaves in the atomic: it only reads.
AfterLoad(flag) == flag

\* The role, while the transfer runs, asks its abort checker.
ShouldAbort ==
  /\ transfer = "running"
  /\ abortChecker = "chkr"
  /\ polled' = <<shouldAbort>>
  /\ abortTrigger' = AfterLoad(abortTrigger)
  /\ UNCHANGED <<flagVars, pc, ra, mainVars, readerVars, abortChecker, transfer,
                 waitVars, abortThread, wdLog, stores, abortMutex, elapsed,
                 calls, histVars>>

\* ---------------------------------------------------------- setUpAbort
\* Faulty variant: abortSeconds < 0: a timeout of 0 arms the watchdog
AbortDisabledBelowZero(abortSeconds) == abortSeconds < 0

\* if (abortSeconds <= 0) return;
AbortDisabled(abortSeconds) == abortSeconds <= 0

SetUpAbortEnter ==
  /\ pc = "setUpAbort"
  /\ IF AbortDisabled(FLAGS_abort_after_seconds)
     THEN /\ pc' = ra
          /\ armCalls' = armCalls + 1
     ELSE /\ pc' = "setAbortChecker"
          /\ armCalls' = armCalls
  /\ UNCHANGED <<flagVars, ra, mainVars, readerVars, roleVars, waitVars, wdVars,
                 abortMutex, elapsed, calls, cancelCalls, notifies, cancelledInTime>>

\* static abortTrigger{false}; static chkr(abortTrigger);
\* senderOrReceiver.setAbortChecker(&chkr);
SetAbortChecker ==
  /\ pc = "setAbortChecker"
  /\ abortChecker' = "chkr"
  /\ calls' = calls \cup {"setAbortChecker"}
  /\ pc' = "async"
  /\ UNCHANGED <<flagVars, ra, mainVars, readerVars, transfer, polled, waitVars,
                 wdVars, abortMutex, elapsed, histVars>>

\* Faulty variant: the future is no static: every call launches the thread anew
LaunchEveryCall(thread) == "launched"

\* static std::future<void> abortThread = std::async(std::launch::async, lambda):
\* the initialiser of a static local runs the first time only.
Launch(thread) == IF thread = "none" THEN "launched" ELSE thread

AsyncLaunch ==
  /\ pc = "async"
  /\ abortThread' = Launch(abortThread)
  /\ pc' = ra
  /\ armCalls' = armCalls + 1
  /\ UNCHANGED <<flagVars, ra, mainVars, readerVars, roleVars, waitVars,
                 abortTrigger, wdLog, stores, abortMutex, elapsed, calls,
                 cancelCalls, notifies, cancelledInTime>>

\* --------------------------------------------------------- cancelAbort
\* std::unique_lock<std::mutex> lk(abortMutex): blocks while the mutex is held.
CancelLock ==
  /\ pc = "cancelAbort"
  /\ abortMutex = "none"
  /\ abortMutex' = "main"
  /\ pc' = "notify_one"
  /\ UNCHANGED <<flagVars, ra, mainVars, readerVars, roleVars, waitVars, wdVars,
                 elapsed, calls, histVars>>

\* abortCondVar.notify_one() unblocks a thread that is waiting and does
\* nothing when none is.
NotifyOne(thread) == IF thread = "waiting" THEN "unblocked" ELSE thread

CancelNotify ==
  /\ pc = "notify_one"
  /\ abortThread' = NotifyOne(abortThread)
  /\ unblockedBy' = IF abortThread' # abortThread THEN "notify" ELSE unblockedBy
  /\ notifies' = notifies + 1
  /\ cancelledInTime' = (cancelledInTime \/
                           (abortThread # "none" /\ elapsed < FLAGS_abort_after_seconds))
  /\ pc' = "cancel_unlock"
  /\ UNCHANGED <<flagVars, ra, mainVars, readerVars, roleVars, remaining,
                 cvStatus, abortTrigger, wdLog, stores, abortMutex, elapsed,
                 calls, armCalls, cancelCalls>>

\* The destructor of lk releases the mutex; cancelAbort returns.
CancelUnlock ==
  /\ pc = "cancel_unlock"
  /\ abortMutex' = "none"
  /\ pc' = ra
  /\ cancelCalls' = cancelCalls + 1
  /\ UNCHANGED <<flagVars, ra, mainVars, readerVars, roleVars, waitVars, wdVars,
                 elapsed, calls, armCalls, notifies, cancelledInTime>>

\* ------------------------------------------------- the watchdog thread
\* LOG(INFO) << "Will abort in " ..
WdStart ==
  /\ abortThread = "launched"
  /\ wdLog' = Append(wdLog, "Will abort")
  /\ abortThread' = "lock"
  /\ UNCHANGED <<flagVars, pc, ra, mainVars, readerVars, roleVars, waitVars,
                 abortTrigger, stores, abortMutex, elapsed, calls, histVars>>

\* std::unique_lock<std::mutex> lk(abortMutex)
WdLock ==
  /\ abortThread = "lock"
  /\ abortMutex = "none"
  /\ abortMutex' = "watchdog"
  /\ abortThread' = "wait_for"
  /\ UNCHANGED <<flagVars, pc, ra, mainVars, readerVars, roleVars, waitVars,
                 abortTrigger, wdLog, stores, elapsed, calls, histVars>>

\* abortCondVar.wait_for(lk, seconds(abortSeconds)): the mutex is released, the
\* thread blocks and the deadline is abortSeconds from now.
WdWait ==
  /\ abortThread = "wait_for"
  /\ abortMutex' = "none"
  /\ remaining' = FLAGS_abort_after_seconds
  /\ abortThread' = "waiting"
  /\ UNCHANGED <<flagVars, pc, ra, mainVars, readerVars, roleVars, unblockedBy,
                 cvStatus, abortTrigger, wdLog, stores, elapsed, calls, histVars>>

\* The deadline of wait_for has passed: the thread unblocks.
WdTimeout ==
  /\ abortThread = "waiting"
  /\ remaining = 0
  /\ unblockedBy' = "timeout"
  /\ abortThread' = "unblocked"
  /\ UNCHANGED <<flagVars, pc, ra, mainVars, readerVars, roleVars, remaining,
                 cvStatus, abortTrigger, wdLog, stores, abortMutex, elapsed,
                 calls, histVars>>

\* wait_for has no predicate: the thread may unblock spuriously.
WdSpurious ==
  /\ abortThread = "waiting"
  /\ unblockedBy' = "spurious"
  /\ abortThread' = "unblocked"
  /\ UNCHANGED <<flagVars, pc, ra, mainVars, readerVars, roleVars, remaining,
                 cvStatus, abortTrigger, wdLog, stores, abortMutex, elapsed,
                 calls, histVars>>

\* What wait_for may return.  [thread.condition.condvar]: "cv_status::timeout
\* if the relative timeout specified by rel_time expired, otherwise
\* cv_status::no_timeout".  With time left it is no_timeout; unblocked by the
\* deadline it is timeout.  A thread unblocked by a notification or spuriously
\* whose deadline passes before it holds the mutex again gets timeout where the
\* library reads the clock on return (libstdc++, libc++) and no_timeout where
\* it goes by what ended the wait: either, here.
WaitStatus(by, rem) ==
  IF rem > 0 THEN {"no_timeout"}
  ELSE IF by = "timeout" THEN {"timeout"}
  ELSE {"no_timeout", "timeout"}

\* Once unblocked, wait_for locks the mutex again and returns.
WdReturn ==
  /\ abortThread = "unblocked"
  /\ abortMutex = "none"
  /\ abortMutex' = "watchdog"
  /\ cvStatus' \in WaitStatus(unblockedBy, remaining)
  /\ abortThread' = "returned"
  /\ UNCHANGED <<flagVars, pc, ra, mainVars, readerVars, roleVars, remaining,
                 unblockedBy, abortTrigger, wdLog, stores, elapsed, calls, histVars>>

\* Faulty variant: a wait in a loop: after a wake-up the thread waits again
AfterNoAbortWaitsAgain == "wait_for"

\* After the if branch the lambda is at its end.
AfterNoAbort == "unlock"

\* == std::cv_status::no_timeout: LOG(INFO) << "Already finished normally, no abort."
WdNoAbort ==
  /\ abortThread = "returned"
  /\ cvStatus = "no_timeout"
  /\ wdLog' = Append(wdLog, "Already finished normally")
  /\ abortThread' = AfterNoAbort
  /\ UNCHANGED <<flagVars, pc, ra, mainVars, readerVars, roleVars, waitVars,
                 abortTrigger, stores, abortMutex, elapsed, calls, histVars>>

\* else: LOG(INFO) << "Requesting abort."; abortTrigger.store(true);
WdRequestAbort ==
  /\ abortThread = "returned"
  /\ cvStatus # "no_timeout"
  /\ wdLog' = Append(wdLog, "Requesting abort")
  /\ abortTrigger' = TRUE
  /\ stores' = stores + 1
  /\ abortThread' = "unlock"
  /\ UNCHANGED <<flagVars, pc, ra, mainVars, readerVars, roleVars, waitVars,
                 abortMutex, elapsed, calls, histVars>>

\* The lambda ends: lk's destructor releases the mutex, the thread ends.
WdUnlock ==
  /\ abortThread = "unlock"
  /\ abortMutex' = "none"
  /\ abortThread' = "done"
  /\ UNCHANGED <<flagVars, pc, ra, mainVars, readerVars, roleVars, waitVars,
                 abortTrigger, wdLog, stores, elapsed, calls, histVars>>

\* wait_for's timer runs from the call of wait_for until it returns.
TimerRunning == abortThread \in {"waiting", "unblocked"}

\* One second passes.
Tick ==
  /\ abortThread # "none"
  /\ \/ elapsed < FLAGS_abort_after_seconds
     \/ TimerRunning /\ remaining > 0
  /\ elapsed' = IF elapsed < FLAGS_abort_after_seconds THEN elapsed + 1 ELSE elapsed
  /\ remaining' = IF TimerRunning /\ remaining > 0 THEN remaining - 1 ELSE remaining
  /\ UNCHANGED <<flagVars, pc, ra, mainVars, readerVars, roleVars, unblockedBy,
                 cvStatus, wdVars, abortMutex, calls, histVars>>

\* ------------------------------------------------------- specifications
SetUpAbort == SetUpAbortEnter \/ SetAbortChecker \/ AsyncLaunch
CancelAbort == CancelLock \/ CancelNotify \/ CancelUnlock
Watchdog ==
  \/ WdStart \/ WdLock \/ WdWait \/ WdTimeout \/ WdSpurious \/ WdReturn
  \/ WdNoAbort \/ WdRequestAbort \/ WdUnlock

Next ==
  \/ Dispatch
  \/ ParseAndPrint
  \/ RegisterPorts
  \/ TransferAsync
  \/ FinishReturn
  \/ RunForeverCall
  \/ RunForeverReturn
  \/ SkipFiles
  \/ GetLine
  \/ GetLineEof
  \/ SenderCtor
  \/ TransferCall
  \/ TransferReturn
  \/ MainReturn
  \/ StaticDtors
  \/ ShouldAbort
  \/ SetUpAbort
  \/ CancelAbort
  \/ Watchdog
  \/ Tick

Spec == Init /\ [][Next]_vars

\* The scheduler runs every thread that can take a step, and time passes.  The
\* calls into the transfer engine (finish, runForever, transfer) need not
\* return, and no spurious wake-up need happen.
WatchdogStep ==
  \/ WdStart \/ WdLock \/ WdWait \/ WdTimeout \/ WdReturn
  \/ WdNoAbort \/ WdRequestAbort \/ WdUnlock
ForegroundStep == SetUpAbort \/ CancelAbort \/ MainReturn \/ StaticDtors
Fairness ==
  /\ WF_vars(WatchdogStep)
  /\ WF_vars(ForegroundStep)
  /\ WF_vars(Tick)

FairSpec == Init /\ [][Next]_vars /\ Fairness

\* ------------------------------------- any caller of the two functions
\* To state what setUpAbort and cancelAbort do for any caller, a foreground
\* thread that calls them in any order, each up to MaxCalls times.  The flags
\* other than abort_after_seconds keep the defaults of their DEFINE_ lines.
InitApi ==
  /\ FLAGS_parse_transfer_log = FALSE
  /\ FLAGS_destination = ""
  /\ FLAGS_run_as_daemon = TRUE
  /\ FLAGS_files = FALSE
  /\ FLAGS_abort_after_seconds \in AbortSecondsValues
  /\ InitState
  /\ cin = <<>>
  /\ pc = "idle"

\* A call of setUpAbort(senderOrReceiver).
CallSetUpAbort ==
  /\ pc = "idle"
  /\ armCalls < MaxCalls
  /\ pc' = "setUpAbort"
  /\ ra' = "idle"
  /\ UNCHANGED <<flagVars, mainVars, readerVars, roleVars, waitVars, wdVars,
                 abortMutex, elapsed, calls, histVars>>

\* A call of cancelAbort().
CallCancelAbort ==
  /\ pc = "idle"
  /\ cancelCalls < MaxCalls
  /\ pc' = "cancelAbort"
  /\ ra' = "idle"
  /\ UNCHANGED <<flagVars, mainVars, readerVars, roleVars, waitVars, wdVars,
                 abortMutex, elapsed, calls, histVars>>

NextApi ==
  \/ CallSetUpAbort
  \/ CallCancelAbort
  \/ SetUpAbort
  \/ CancelAbort
  \/ Watchdog
  \/ Tick

SpecApi == InitApi /\ [][NextApi]_vars

FairSpecApi == InitApi /\ [][NextApi]_vars /\ Fairness

\* ------------------------------------------------------------- helpers
CancelPcs == {"cancelAbort", "notify_one", "cancel_unlock"}
AfterMainPcs == {"return", "static_dtors", "exited"}
TransferCalls == {"transferAsync", "runForever", "transfer"}

RECURSIVE CountFrom(_, _, _)
CountFrom(log, line, i) ==
  IF i > Len(log) THEN 0
  ELSE (IF log[i] = line THEN 1 ELSE 0) + CountFrom(log, line, i + 1)

\* How many times the watchdog took each of its two exits.
NormalExits == CountFrom(wdLog, "Already finished normally", 1)
AbortExits == CountFrom(wdLog, "Requesting abort", 1)


\* -------------------------------------------------------------- claims

\* C1: when cancelAbort() runs (its notify_one) before the timeout has elapsed,
\* the abort flag is false then and in every later state of the run, also when
\* the watchdog thread had not yet entered wait_for.
C1_CancelInTimeKeepsFlagFalse == cancelledInTime => ~abortTrigger

\* C2: when the timeout has elapsed, the watchdog has ended and cancelAbort()
\* was never executed, the wait ended by timeout and the abort flag was set,
\* once: the watchdog never ends without setting the flag otherwise.
C2_NoCancelMeansTriggered ==
  (abortThread = "done" /\ elapsed = FLAGS_abort_after_seconds /\ notifies = 0)
    => (abortTrigger /\ stores = 1 /\ unblockedBy = "timeout")

\* C3: in every branch that runs a transfer, setUpAbort has returned before the
\* transfer-running call begins, cancelAbort is not entered while that call
\* runs, and once the call has returned, with any error code, main goes
\* through cancelAbort before it returns.
C3_ArmBeforeCancelAfter ==
  /\ (calls \cap TransferCalls # {}) => (armCalls = 1 /\ transfer # "none")
  /\ (transfer = "running") => (cancelCalls = 0 /\ pc \notin CancelPcs)
  /\ (pc \in CancelPcs /\ calls \cap TransferCalls # {}) => (transfer = "returned")
  /\ (transfer = "returned") => (pc \in CancelPcs \cup AfterMainPcs)
  /\ (transfer = "returned" /\ pc \in CancelPcs) => (cancelCalls = 0)
  /\ (transfer = "returned" /\ pc \in AfterMainPcs) => (cancelCalls = 1)

\* A Send run whose report carried an error code has ended: armed, then the
\* transfer, then cancelled.
C3_Witness ==
  /\ pc = "exited"
  /\ "transfer" \in calls
  /\ reportCode = <<MaxErrorCode>>
  /\ armCalls = 1
  /\ cancelCalls = 1

\* C4: cancelAbort(), called any number of times in any interleaving with
\* setUpAbort and the watchdog thread, always returns to its caller (it never
\* stays blocked on abortMutex), and however often it is called the abort
\* flag is stored and the expiry logged at most once.
C4_CancelAlwaysReturns ==
  /\ (pc \in CancelPcs) ~> (pc = "idle")
  /\ [](stores <= 1 /\ AbortExits <= 1)
  /\ [][CancelAbort => (abortTrigger' = abortTrigger /\ stores' = stores)]_vars

\* cancelAbort was called MaxCalls times and has returned each time, the last
\* time after the watchdog had expired.
C4_Witness ==
  /\ pc = "idle"
  /\ cancelCalls = MaxCalls
  /\ notifies = MaxCalls
  /\ armCalls >= 1
  /\ abortThread = "done"
  /\ abortTrigger

C6_FlagMonotonicSingleWriter ==
  /\ ~abortTrigger
  /\ [](stores <= 1 /\ (abortTrigger <=> stores = 1))
  /\ [][abortTrigger => abortTrigger']_vars
  /\ [][(abortTrigger' # abortTrigger) => WdRequestAbort]_vars

\* The role has read the flag as true and the flag is still true at the end.
C6_Witness ==
  /\ polled = <<TRUE>>
  /\ abortTrigger
  /\ pc = "exited"

\* C7: with abort_after_seconds <= 0 setUpAbort does nothing: no watchdog
\* thread, no abort checker installed, and the flag is false in every state.
C7_DisabledIsNoOp ==
  (FLAGS_abort_after_seconds <= 0) =>
    /\ abortThread = "none"
    /\ abortChecker = "null"
    /\ "setAbortChecker" \notin calls
    /\ ~abortTrigger
    /\ ~shouldAbort
    /\ polled = <<>>
    /\ wdLog = <<>>

\* A run with abort_after_seconds = 0 went through setUpAbort and a transfer.
C7_Witness ==
  /\ FLAGS_abort_after_seconds = 0
  /\ armCalls = 1
  /\ transfer = "returned"
  /\ pc = "exited"

\* C8: once started, the watchdog thread always reaches its end, also when
\* cancelAbort's notification came before it waited, and the process ends
\* only after the watchdog thread has ended.
C8_WatchdogTerminates ==
  /\ (abortThread # "none") ~> (abortThread = "done")
  /\ [](pc = "exited" => abortThread \in {"none", "done"})
  /\ [](pc = "exited" /\ FLAGS_abort_after_seconds > 0 /\ armCalls = 1
          => abortThread = "done")

\* The notification came before the watchdog waited; the watchdog then waited
\* out the timeout and the process ended after it.
C8_Witness ==
  /\ pc = "exited"
  /\ abortThread = "done"
  /\ notifies = 1
  /\ unblockedBy = "timeout"

\* The mode the flags ask for, as the claim gives it.
C9_ExpectedMode ==
  IF FLAGS_parse_transfer_log THEN "LogRepair"
  ELSE IF FLAGS_destination = ""
       THEN (IF FLAGS_run_as_daemon THEN "ReceiveForever" ELSE "ReceiveOnce")
       ELSE "Send"

\* The modes each call on a collaborator belongs to.
C9_ModesOf(call) ==
  CASE call = "parseAndPrint" -> {"LogRepair"}
    [] call \in {"Receiver", "registerPorts"} -> {"ReceiveOnce", "ReceiveForever"}
    [] call \in {"transferAsync", "finish"} -> {"ReceiveOnce"}
    [] call = "runForever" -> {"ReceiveForever"}
    [] call \in {"Sender", "transfer"} -> {"Send"}
    [] OTHER -> {"ReceiveOnce", "ReceiveForever", "Send"}

\* The call that only the given mode makes.
C9_CallOf(mode) ==
  CASE mode = "LogRepair" -> "parseAndPrint"
    [] mode = "ReceiveOnce" -> "finish"
    [] mode = "ReceiveForever" -> "runForever"
    [] OTHER -> "transfer"

\* C9: every call a run makes belongs to the one mode that the flags
\* (parse_transfer_log, destination empty, run_as_daemon) select, and a run
\* that returns from main (but for the no-port return) has run that mode.
C9_ModeSelection ==
  /\ \A c \in calls : C9_ExpectedMode \in C9_ModesOf(c)
  /\ (pc = "start") => (calls = {})
  /\ (pc \in AfterMainPcs /\ numSuccess # <<0>>) => (C9_CallOf(C9_ExpectedMode) \in calls)

\* parse_transfer_log wins over a destination: the run was a LogRepair.
C9_Witness ==
  /\ pc = "exited"
  /\ FLAGS_parse_transfer_log
  /\ FLAGS_destination # ""
  /\ calls = {"parseAndPrint"}

\* C10: in ReceiveOnce and Send the value main returns is the error code of
\* the transfer report, whatever the watchdog did.
C10_ExitStatusIsReportCode ==
  (pc \in {"static_dtors", "exited"} /\ reportCode # <<>>) => (exitStatus = reportCode)

\* The watchdog expired during the transfer, the report carried a non-zero
\* code and main returned it.
C10_Witness ==
  /\ pc = "exited"
  /\ reportCode = <<MaxErrorCode>>
  /\ exitStatus = <<MaxErrorCode>>
  /\ abortTrigger
  /\ cancelCalls = 1

\* ---------------------------------------------------------------------------
\* C11: in receive mode, once registerPorts() has reported that zero ports
\* were bound, the run is over: main is past its return, no abort checker
\* is installed, setUpAbort was not called and no watchdog thread exists,
\* and none of transferAsync(), finish(), runForever() is ever called.
C11_NoPortsStopsAtOnce ==
  numSuccess = <<0>> =>
    /\ pc \in {"static_dtors", "exited"}
    /\ exitStatus # <<>>
    /\ abortChecker = "null"
    /\ armCalls = 0
    /\ abortThread = "none"
    /\ transfer = "none"
    /\ calls \cap {"setAbortChecker", "transferAsync", "finish", "runForever"} = {}

C11_Witness ==
  /\ numSuccess = <<0>>
  /\ FLAGS_abort_after_seconds > 0
  /\ "registerPorts" \in calls
  /\ pc = "exited"

\* ---------------------------------------------------------------------------
\* C12: a run that bound no port returns a status that no run which
\* performed a transfer returns as the engine's error code; in particular
\* it is not the success status OK.
C12_NoPortsStatusIsDistinct ==
  (numSuccess = <<0>> /\ exitStatus # <<>>) =>
    /\ exitStatus # <<OK>>
    /\ exitStatus[1] \notin ErrorCodes

\* ---------------------------------------------------------------------------
\* C13: send mode reading the item list from standard input.  When some
\* line of the input splits into zero fields or into more than two, no Sender
\* is ever constructed, setUpAbort is never called, no watchdog thread
\* exists and transfer() never begins, also when lines before it were well
\* formed; and the reader that has consumed such a line is in the fatal
\* error, with nothing handed to a sender.
C13_BadLine(line) == Len(Split(line)) = 0 \/ Len(Split(line)) > 2

C13_MalformedLineIsFatal ==
  /\ (ReadsStdin /\ \E i \in 1 .. Len(cin) : C13_BadLine(cin[i])) =>
       /\ pc \in {"start", "readFiles", "fatal", "terminated"}
       /\ calls \cap {"Sender", "setAbortChecker", "transfer"} = {}
       /\ senderFiles = <<>>
       /\ abortChecker = "null"
       /\ armCalls = 0
       /\ abortThread = "none"
       /\ transfer = "none"
  /\ (cinPos > 0 /\ C13_BadLine(cin[cinPos])) => pc = "fatal"
  /\ pc = "fatal" => (cinPos > 0 /\ C13_BadLine(cin[cinPos]) /\ exitStatus = <<>>)

\* The second line is the malformed one; the first one gave an item.
C13_Witness ==
  /\ pc = "fatal"
  /\ cinPos = 2
  /\ Len(fileInfo) = 1
  /\ Len(Split(cin[2])) > 2

\* ---------------------------------------------------------------------------
\* C14: the item-list reader.  The items the lines of the model stand for,
\* written out by hand: name, then size, -1 for a line without a size.
C14_Item(line) ==
  CASE line = <<"a">>               -> << <<"a">>, -1 >>
    [] line = <<"b", TAB, "1", "7">> -> << <<"b">>, 17 >>
    [] line = <<"a", TAB, TAB, "7">> -> << <<"a">>, 7 >>
    [] OTHER                         -> <<>>

C14_Items(n) == [i \in 1 .. n |-> C14_Item(cin[i])]

C14_OneOrTwoFields == \A i \in 1 .. Len(cin) : Len(Split(cin[i])) \in {1, 2}

C14_SizesAreNumbers ==
  \A i \in 1 .. Len(cin) :
    Len(Split(cin[i])) = 2 =>
      \A k \in 1 .. Len(Split(cin[i])[2]) :
        Split(cin[i])[2][k] \in {"0", "1", "2", "3", "4", "5", "6", "7", "8", "9"}

\* What the reader does on the streams in `streams`: it never dies, it has one
\* item for each line consumed so far, in input order, and the Sender is
\* built from the items of the whole input; without -files nothing is
\* consumed and the Sender is built from the empty sequence.
C14_Reader(streams) ==
  /\ (ReadsStdin /\ streams) =>
       /\ pc \notin {"fatal", "terminated"}
       /\ fileInfo = C14_Items(cinPos)
       /\ senderFiles # <<>> =>
            (cinPos = Len(cin) /\ senderFiles[1] = C14_Items(Len(cin)))
  /\ (~FLAGS_parse_transfer_log /\ FLAGS_destination # "" /\ ~FLAGS_files) =>
       /\ cinPos = 0
       /\ fileInfo = <<>>
       /\ senderFiles # <<>> => senderFiles[1] = <<>>

C15_Outcome == IF parsed[1] THEN OK ELSE ERROR

C15_LogRepair ==
  FLAGS_parse_transfer_log =>
    /\ calls \subseteq {"parseAndPrint"}
    /\ numSuccess = <<>> /\ senderFiles = <<>> /\ transfer = "none"
    /\ abortChecker = "null"
    /\ armCalls = 0
    /\ abortThread = "none" /\ wdLog = <<>> /\ ~abortTrigger
    /\ parsed # <<>> => retCode = C15_Outcome
    /\ pc \in CancelPcs \cup AfterMainPcs => parsed # <<>>
    /\ cancelCalls <= 1 /\ notifies <= 1
    /\ pc \in AfterMainPcs => (cancelCalls = 1 /\ notifies = 1)
    /\ exitStatus # <<>> => exitStatus = <<C15_Outcome>>

C15_Witness ==
  /\ FLAGS_parse_transfer_log
  /\ FLAGS_abort_after_seconds > 0
  /\ parsed = <<FALSE>>
  /\ cancelCalls = 1
  /\ exitStatus = <<ERROR>>
  /\ pc = "exited"

\* ---------------------------------------------------------------------------
\* C16: ReceiveForever mode (receive with run_as_daemon).
C16_ReceiveForever ==
  ~FLAGS_parse_transfer_log /\ FLAGS_destination = "" /\ FLAGS_run_as_daemon

\* No report is read, transferAsync()/finish() are never called, main
\* returns OK once runForever() has returned, and cancelAbort() does not
\* run while runForever() does.
C16_NoReportNoCancel ==
  C16_ReceiveForever =>
    /\ reportCode = <<>>
    /\ calls \cap {"transferAsync", "finish"} = {}
    /\ ("runForever" \in calls /\ pc # "runForever") => retCode = OK
    /\ ("runForever" \in calls /\ exitStatus # <<>>) => exitStatus = <<OK>>
    /\ pc = "runForever" => (transfer = "running" /\ cancelCalls = 0 /\ notifies = 0)
    /\ pc \in CancelPcs => transfer = "returned"

\* A service loop that outlives the timeout sees the flag become true: the
\* watchdog thread does not end with the flag false while runForever() is
\* still running.
C16_LoopSeesAbort ==
  (C16_ReceiveForever /\ FLAGS_abort_after_seconds > 0
     /\ pc = "runForever" /\ abortThread = "done") => abortTrigger

\* C16: in ReceiveForever mode no completion report is ever read
\* (transferAsync/finish are never called), the outcome is OK if
\* runForever() ever returns, cancelAbort is not executed while runForever()
\* is running, and so with abort_after_seconds > 0 a service loop that
\* outlives the timeout sees the abort flag become true.
C16_ForeverModeAndAbort == C16_NoReportNoCancel /\ C16_LoopSeesAbort

\* ---------------------------------------------------------------------------
\* C17: main is left without cancelAbort() only before setUpAbort() was
\* called: by the fatal item-list error (or the exception of a size that is
\* no number) and by the return for no bound port.  setUpAbort() runs before
\* any cancelAbort(); when a watchdog thread was started and main has
\* returned, cancelAbort() was executed, after the thread was launched.  At
\* most one watchdog thread is started in a run.
C17_ThreadsStarted == CountFrom(wdLog, "Will abort", 1)

C17_NoCancelOnlyBeforeArming ==
  /\ pc \in {"fatal", "terminated"} =>
       (armCalls = 0 /\ abortThread = "none" /\ cancelCalls = 0)
  /\ (exitStatus # <<>> /\ cancelCalls = 0) =>
       (numSuccess = <<0>> /\ armCalls = 0 /\ abortThread = "none")
  /\ pc \in {"setUpAbort", "setAbortChecker", "async"} =>
       (cancelCalls = 0 /\ notifies = 0 /\ abortThread = "none")
  /\ (abortThread # "none" /\ exitStatus # <<>>) =>
       (armCalls = 1 /\ cancelCalls = 1 /\ notifies = 1)
  /\ armCalls <= 1
  /\ C17_ThreadsStarted <= 1
  /\ abortThread = "none" => C17_ThreadsStarted = 0

C17_Witness ==
  /\ pc = "exited"
  /\ C17_ThreadsStarted = 1
  /\ armCalls = 1
  /\ cancelCalls = 1
  /\ reportCode # <<>> /\ reportCode # <<OK>>

\* ---------------------------------------------------------------------------
\* C18: with abort_after_seconds > 0 the abort checker is installed before
\* the watchdog thread is launched and before the transfer-running call
\* begins; so whenever the role is running and the flag is true the role
\* has the checker and its shouldAbort() returns true.  shouldAbort() is the
\* current value of the flag in every state, and every answer the role gets
\* is the value the flag had when it asked.
C18_CheckerInstalledFirst ==
  FLAGS_abort_after_seconds > 0 =>
    /\ pc = "async" => (abortChecker = "chkr" /\ abortThread = "none")
    /\ abortThread # "none" => abortChecker = "chkr"
    /\ transfer # "none" => (abortChecker = "chkr" /\ abortThread # "none")
    /\ (transfer = "running" /\ abortTrigger) =>
         (abortChecker = "chkr" /\ shouldAbort = TRUE)

C18_ShouldAbortIsFlag ==
  /\ []C18_CheckerInstalledFirst
  /\ [](shouldAbort = abortTrigger)
  /\ [](polled = <<TRUE>> => abortTrigger)
  /\ [][polled' # polled => polled' = <<abortTrigger>>]_vars

C18_Witness ==
  /\ FLAGS_abort_after_seconds > 0
  /\ transfer = "running"
  /\ abortTrigger
  /\ abortChecker = "chkr"
  /\ polled = <<TRUE>>
====
